---- MODULE Spec2Model ----
(***************************************************************************)
(* MarkovSeqRec: build.py, recommend.py and evaluate.py as one state       *)
(* machine.  A behaviour is one run of one of the three programs: its      *)
(* argument validation, its file reads, its core computation (session      *)
(* segmentation and path ingestion, random-walk recommendation with        *)
(* fallback fill, count evaluation) and its file write.                    *)
(*                                                                         *)
(* Python lists are sequences; list indices stored in variables keep       *)
(* Python's 0-based values (split_inds), and are shifted by one where a    *)
(* sequence is indexed.  A state of the chain (an int in Python, the       *)
(* position of its label in mc.labels) is the 1-based position here.       *)
(***************************************************************************)
EXTENDS Integers, Sequences, FiniteSets, TLC

VARIABLES
    prog,   \* which program runs: "build", "recommend" or "evaluate"
    args,   \* the parsed command line (and what Path.is_file/exists answer)
    pc,     \* position in the program
    err,    \* the exception that aborted the run, or "none"
    trace,  \* file reads and writes, and the starts of computations, in order
    data,   \* load_interactions: data[user] = sorted list of <<time, item>>
    mc,     \* the MarkovChain: order, labels, transitions
    bld,    \* build_niemarkov's locals
    item_details, \* load_item_details: the items of the item-details file
    rec,    \* recommend's locals
    ev,     \* evaluate's inputs and locals
    out     \* the output file: "absent", or what was written to it

vars == <<prog, args, pc, err, trace, data, mc, bld, item_details, rec, ev, out>>

(***************************************************************************)
(* Bounds and input domains                                                *)
(***************************************************************************)
MaxRows == 3    \* interactions in an input file, all users together
MaxOrder == 2   \* largest Markov order tried
MaxPathLen == 3 \* longest path behind a chain that recommend.py loads
MaxHistory == 2 \* interactions in recommend.py's input file, all users together
MaxRecs == 2    \* largest --num_recs tried
MaxSteps == 2   \* num_steps handed to recommend()
MaxEvalRecs == 3      \* recommended items in evaluate.py's input, all users together
MaxEvalPurchases == 2 \* purchased items in evaluate.py's input, all users together

Users == <<"u1", "u2">>
ItemSeq == <<"A", "B", "C">>
Items == {ItemSeq[i] : i \in 1..Len(ItemSeq)}
Times == {0, 10, 50}
\* float('inf'): compares greater than every time gap
Infinity == 1000
Thresholds == {0, 10, 30, Infinity}

Range(s) == {s[i] : i \in 1..Len(s)}
Min(a, b) == IF a < b THEN a ELSE b

(***************************************************************************)
(* Interactions: (time, item) tuples, kept sorted by list.sort()           *)
(***************************************************************************)
ItemRank(x) == CHOOSE i \in 1..Len(ItemSeq) : ItemSeq[i] = x

\* Python's tuple order on (time, item)
TupleLeq(a, b) == a[1] < b[1] \/ (a[1] = b[1] /\ ItemRank(a[2]) <= ItemRank(b[2]))

IsSorted(h) == \A i \in 1..(Len(h) - 1) : TupleLeq(h[i], h[i + 1])

SortedHistories(n) == {h \in [1..n -> Times \X Items] : IsSorted(h)}

\* what load_interactions can return for a file of at most MaxRows rows
LoadableData ==
    UNION {
        {<<h>> : h \in SortedHistories(n)} \cup
        UNION {{<<h1, h2>> : h1 \in SortedHistories(k), h2 \in SortedHistories(n - k)}
               : k \in 1..(n - 1)}
        : n \in 1..MaxRows}

(***************************************************************************)
(* MarkovChain (niemarkov)                                                 *)
(***************************************************************************)
NewChain(order) == [order |-> order, labels |-> <<>>, transitions |-> <<>>]

\* mc.label_to_state[item]: 0 stands for KeyError
LabelToState(labels, item) ==
    IF item \in Range(labels)
    THEN CHOOSE i \in 1..Len(labels) : labels[i] = item
    ELSE 0

NodeOf(labels, items) == [i \in 1..Len(items) |-> LabelToState(labels, items[i])]

Count(tr, v, x) == IF v \in DOMAIN tr /\ x \in DOMAIN tr[v] THEN tr[v][x] ELSE 0

Increment(tr, v, x, by) ==
    IF v \in DOMAIN tr
    THEN IF x \in DOMAIN tr[v]
         THEN [tr EXCEPT ![v][x] = @ + by]
         ELSE [tr EXCEPT ![v] = @ @@ (x :> by)]
    ELSE tr @@ (v :> (x :> by))

RECURSIVE AddLabels(_, _)
AddLabels(labels, path) ==
    IF path = <<>> THEN labels
    ELSE AddLabels(IF Head(path) \in Range(labels) THEN labels
                   ELSE Append(labels, Head(path)),
                   Tail(path))

RECURSIVE AddWindows(_, _, _, _, _)
AddWindows(tr, labels, order, path, i) ==
    IF i + order > Len(path) THEN tr
    ELSE AddWindows(
            Increment(tr, NodeOf(labels, SubSeq(path, i, i + order - 1)),
                      LabelToState(labels, path[i + order]), 1),
            labels, order, path, i + 1)

\* mc.add_path(path): paths no longer than the order contribute nothing
AddPath(chain, path) ==
    IF Len(path) <= chain.order THEN chain
    ELSE LET labels == AddLabels(chain.labels, path) IN
         [chain EXCEPT !.labels = labels,
                       !.transitions = AddWindows(chain.transitions, labels,
                                                  chain.order, path, 1)]

(***************************************************************************)
(* build.py                                                                *)
(***************************************************************************)
\* a boundary drawn at a gap equal to the threshold
ExceedsThresholdOrEqual(gap, threshold) == threshold # Infinity /\ gap >= threshold

\* `(t[i] - t[i-1]) > threshold`
ExceedsThreshold(gap, threshold) == threshold # Infinity /\ gap > threshold

RECURSIVE SplitLoop(_, _, _, _)
SplitLoop(h, threshold, i, split_inds) ==
    IF i >= Len(h) THEN split_inds
    ELSE SplitLoop(h, threshold, i + 1,
                   IF ExceedsThreshold(h[i + 1][1] - h[i][1], threshold)
                   THEN Append(split_inds, i)
                   ELSE split_inds)

\* a segmenter that never splits
SplitIndsOnePath(h, threshold) == <<0, Len(h)>>

\* split_inds of one user: [0, every i with a gap > threshold before it, len]
SplitInds(h, threshold) == Append(SplitLoop(h, threshold, 1, <<0>>), Len(h))

\* [item for path_ind in range(path_start, path_end)]
PathItems(h, path_start, path_end) ==
    [k \in 1..(path_end - path_start) |-> h[path_start + k][2]]

\* a path as long as the order handed to add_path
PathIsIngestedOrEqual(path_len, markov_order) == path_len >= markov_order

\* `if (path_end - path_start) > markov_order:`
PathIsIngested(path_len, markov_order) == path_len > markov_order

BuildArgs ==
    [input_is_file : BOOLEAN, columns_empty : BOOLEAN, output_exists : BOOLEAN,
     threshold : Thresholds \cup {-5}, markov_order : 0..MaxOrder]

\* parse_args: the first check that fails raises
BuildArgsError(a) ==
    IF ~a.input_is_file THEN "FileNotFound"
    ELSE IF a.columns_empty THEN "EmptyColumn"
    ELSE IF a.output_exists THEN "FileExists"
    ELSE IF a.threshold <= 0 THEN "BadThreshold"
    ELSE IF a.markov_order < 1 THEN "BadOrder"
    ELSE "none"

NoLocals == [user |-> 0, split_inds |-> <<>>, i |-> 0, ingested |-> <<>>]

BuildParseArgs ==
    /\ prog = "build" /\ pc = "parse_args"
    /\ err' = BuildArgsError(args)
    /\ pc' = IF err' = "none" THEN "load_interactions" ELSE "aborted"
    /\ UNCHANGED <<prog, args, trace, data, mc, bld, item_details, rec, ev, out>>

BuildLoadInteractions ==
    /\ prog = "build" /\ pc = "load_interactions"
    /\ trace' = Append(trace, "read")
    /\ \/ /\ \E d \in LoadableData : data' = d
          /\ pc' = "build_niemarkov"
          /\ err' = err
       \/ /\ err' = "MalformedTime"
          /\ pc' = "aborted"
          /\ data' = data
    /\ UNCHANGED <<prog, args, mc, bld, item_details, rec, ev, out>>

\* a build that creates its output file before it computes
BuildNewOpensOutput ==
    /\ prog = "build" /\ pc = "build_niemarkov"
    /\ mc' = NewChain(args.markov_order)
    /\ bld' = NoLocals
    /\ out' = <<mc'>>
    /\ trace' = Append(Append(trace, "write"), "core")
    /\ pc' = "next_user"
    /\ UNCHANGED <<prog, args, err, data, item_details, rec, ev>>

BuildNew ==
    /\ prog = "build" /\ pc = "build_niemarkov"
    /\ mc' = NewChain(args.markov_order)
    /\ bld' = NoLocals
    /\ trace' = Append(trace, "core")
    /\ pc' = "next_user"
    /\ UNCHANGED <<prog, args, err, data, item_details, rec, ev, out>>

SegmentUser ==
    /\ prog = "build" /\ pc = "next_user"
    /\ bld.user < Len(data)
    /\ bld' = [bld EXCEPT !.user = @ + 1,
                          !.split_inds = SplitInds(data[bld.user + 1], args.threshold),
                          !.i = 0]
    /\ pc' = "paths"
    /\ UNCHANGED <<prog, args, err, trace, data, mc, item_details, rec, ev, out>>

IngestPath ==
    /\ prog = "build" /\ pc = "paths"
    /\ bld.i < Len(bld.split_inds) - 1
    /\ LET path_start == bld.split_inds[bld.i + 1]
           path_end == bld.split_inds[bld.i + 2]
           path == PathItems(data[bld.user], path_start, path_end)
       IN IF PathIsIngested(path_end - path_start, args.markov_order)
          THEN /\ mc' = AddPath(mc, path)
               /\ bld' = [bld EXCEPT !.i = @ + 1, !.ingested = Append(@, path)]
          ELSE /\ mc' = mc
               /\ bld' = [bld EXCEPT !.i = @ + 1]
    /\ UNCHANGED <<prog, args, pc, err, trace, data, item_details, rec, ev, out>>

PathsDone ==
    /\ prog = "build" /\ pc = "paths"
    /\ bld.i = Len(bld.split_inds) - 1
    /\ pc' = "next_user"
    /\ UNCHANGED <<prog, args, err, trace, data, mc, bld, item_details, rec, ev, out>>

BuildReturn ==
    /\ prog = "build" /\ pc = "next_user"
    /\ bld.user = Len(data)
    /\ pc' = "dump"
    /\ UNCHANGED <<prog, args, err, trace, data, mc, bld, item_details, rec, ev, out>>

BuildDump ==
    /\ prog = "build" /\ pc = "dump"
    /\ out' = <<mc>>
    /\ trace' = Append(trace, "write")
    /\ pc' = "done"
    /\ UNCHANGED <<prog, args, err, data, mc, bld, item_details, rec, ev>>

(***************************************************************************)
(* recommend.py                                                            *)
(***************************************************************************)
\* the items of the chain file, of the interactions file (C is in no chain) and
\* of the item-details file (D is in no chain)
ChainItems == {"A", "B"}
RecItems == {"A", "C"}
DetailItems == {"A", "D"}

\* the chains a build can have dumped from one path of at most MaxPathLen items
LoadableChains ==
    UNION {{NewChain(order)} \cup
           UNION {{AddPath(NewChain(order), path) : path \in [1..n -> ChainItems]}
                  : n \in (order + 1)..MaxPathLen}
           : order \in 1..MaxOrder}

RecHistories(n) ==
    {[i \in 1..n |-> <<10 * (i - 1), s[i]>>] : s \in [1..n -> RecItems]}

\* what load_interactions can return for a file of at most MaxHistory rows
RecLoadableData ==
    UNION {
        {<<h>> : h \in RecHistories(n)} \cup
        UNION {{<<h1, h2>> : h1 \in RecHistories(k), h2 \in RecHistories(n - k)}
               : k \in 1..(n - 1)}
        : n \in 1..MaxHistory}

RecArgs ==
    [inputs_are_files : BOOLEAN, columns_empty : BOOLEAN, output_exists : BOOLEAN,
     num_recs : (-1)..MaxRecs, no_pseudocount : BOOLEAN]

NumRecsRejected(num_recs) == num_recs < 0

RecArgsError(a) ==
    IF ~a.inputs_are_files THEN "FileNotFound"
    ELSE IF a.columns_empty THEN "EmptyColumn"
    ELSE IF NumRecsRejected(a.num_recs) THEN "BadNumRecs"
    ELSE IF a.output_exists THEN "FileExists"
    ELSE "none"

\* mc.add_pseudocount(): +1 from every known state to every item of the chain
AddPseudocount(chain) ==
    [chain EXCEPT !.transitions =
        [v \in DOMAIN chain.transitions |->
            [x \in 1..Len(chain.labels) |-> Count(chain.transitions, v, x) + 1]]]

\* Python's None; a node has order >= 1 slots, so the empty tuple is free
None == <<>>

\* [item for t, item in inspections[-mc.order:]]
FinalItems(inspections, order) ==
    LET n == Min(order, Len(inspections)) IN
    [i \in 1..n |-> inspections[Len(inspections) - n + i][2]]

\* mc.get_label(node): raises for a node with no recorded transitions
GetLabelRaises(chain, node) == node \notin DOMAIN chain.transitions

\* the try/except: the padded tuple of states, or None after any exception.
\* A padding slot (None in Python) is 0 here.
TryFinalNode(chain, final_items) ==
    IF \E i \in 1..Len(final_items) : final_items[i] \notin Range(chain.labels)
    THEN None
    ELSE LET node == [i \in 1..(chain.order - Len(final_items)) |-> 0]
                     \o NodeOf(chain.labels, final_items)
         IN IF GetLabelRaises(chain, node) THEN None ELSE node

\* `if final_node:`
SearchesNearest(final_node) == final_node # None

\* v_dist of node v
NodeDist(chain, final_items, v) ==
    Cardinality({i \in 1..Len(v) : final_items[i] # chain.labels[v[i]]})

\* node_dists[min(node_dists.keys())]
NearestNodes(chain, final_items) ==
    {v \in DOMAIN chain.transitions :
        \A w \in DOMAIN chain.transitions :
            NodeDist(chain, final_items, v) <= NodeDist(chain, final_items, w)}

\* the states the walk can sample next from node v
Successors(chain, v) ==
    IF v \in DOMAIN chain.transitions
    THEN {x \in DOMAIN chain.transitions[v] : chain.transitions[v][x] > 0}
    ELSE {}

\* num_recs left as requested
UncappedNumRecs(num_recs, all_items) == num_recs

\* num_recs = min(num_recs, len(all_items))
CappedNumRecs(num_recs, all_items) == Min(num_recs, Cardinality(all_items))

\* a collection loop without its break
WalkNeverStops(curr_recs_list, num_recs) == FALSE

\* `if len(curr_recs_set) == num_recs: break`
WalkStops(curr_recs_list, num_recs) == Len(curr_recs_list) = num_recs

IsNewItem(next_item, curr_recs_list) == next_item \notin Range(curr_recs_list)

NoRecLocals ==
    [num_recs |-> 0, all_items |-> {}, user |-> 0, final_node |-> None,
     curr_node |-> None, steps |-> 0, curr_recs_list |-> <<>>,
     remaining_items |-> {}, n_walk |-> 0, recs |-> <<>>]

RecParseArgs ==
    /\ prog = "recommend" /\ pc = "parse_args"
    /\ err' = RecArgsError(args)
    /\ pc' = IF err' = "none" THEN "load_chain" ELSE "aborted"
    /\ UNCHANGED <<prog, args, trace, data, mc, bld, item_details, rec, ev, out>>

RecLoadChain ==
    /\ prog = "recommend" /\ pc = "load_chain"
    /\ \E chain \in LoadableChains : mc' = chain
    /\ trace' = Append(trace, "read")
    /\ pc' = IF args.no_pseudocount THEN "load_interactions" ELSE "add_pseudocount"
    /\ UNCHANGED <<prog, args, err, data, bld, item_details, rec, ev, out>>

RecAddPseudocount ==
    /\ prog = "recommend" /\ pc = "add_pseudocount"
    /\ mc' = AddPseudocount(mc)
    /\ trace' = Append(trace, "smooth")
    /\ pc' = "load_interactions"
    /\ UNCHANGED <<prog, args, err, data, bld, item_details, rec, ev, out>>

RecLoadInteractions ==
    /\ prog = "recommend" /\ pc = "load_interactions"
    /\ trace' = Append(trace, "read")
    /\ \/ /\ \E d \in RecLoadableData : data' = d
          /\ pc' = "load_item_details"
          /\ err' = err
       \/ /\ err' = "MalformedTime"
          /\ pc' = "aborted"
          /\ data' = data
    /\ UNCHANGED <<prog, args, mc, bld, item_details, rec, ev, out>>

RecLoadItemDetails ==
    /\ prog = "recommend" /\ pc = "load_item_details"
    /\ \E d \in SUBSET DetailItems : item_details' = d
    /\ trace' = Append(trace, "read")
    /\ pc' = "recommend"
    /\ UNCHANGED <<prog, args, err, data, mc, bld, rec, ev, out>>

RecommendStart ==
    /\ prog = "recommend" /\ pc = "recommend"
    /\ rec' = [NoRecLocals EXCEPT
                  !.all_items = item_details,
                  !.num_recs = CappedNumRecs(args.num_recs, item_details)]
    /\ trace' = Append(trace, "core")
    /\ pc' = "next_user"
    /\ UNCHANGED <<prog, args, err, data, mc, bld, item_details, ev, out>>

FindFinalNode ==
    /\ prog = "recommend" /\ pc = "next_user"
    /\ rec.user < Len(data)
    /\ LET final_items == FinalItems(data[rec.user + 1], mc.order)
           final_node == TryFinalNode(mc, final_items)
       IN \E v \in IF SearchesNearest(final_node)
                   THEN NearestNodes(mc, final_items)
                   ELSE {final_node} :
             rec' = [rec EXCEPT !.user = @ + 1, !.final_node = v,
                                !.curr_node = None, !.steps = 0,
                                !.curr_recs_list = <<>>, !.remaining_items = {},
                                !.n_walk = 0]
    /\ pc' = "random_walk"
    /\ UNCHANGED <<prog, args, err, trace, data, mc, bld, item_details, ev, out>>

\* mc.random_walk(final_node, start_is_node=True, ...): without a start node the
\* walk starts at a known state drawn at random; an empty chain has none
WalkStart ==
    /\ prog = "recommend" /\ pc = "random_walk"
    /\ IF rec.final_node # None
       THEN /\ rec' = [rec EXCEPT !.curr_node = rec.final_node]
            /\ pc' = "walk" /\ err' = err
       ELSE IF DOMAIN mc.transitions = {}
       THEN /\ err' = "NoKnownStates" /\ pc' = "aborted" /\ rec' = rec
       ELSE /\ \E v \in DOMAIN mc.transitions : rec' = [rec EXCEPT !.curr_node = v]
            /\ pc' = "walk" /\ err' = err
    /\ UNCHANGED <<prog, args, trace, data, mc, bld, item_details, ev, out>>

\* one step of the generator and the loop body that consumes the node it yields
WalkStep ==
    /\ prog = "recommend" /\ pc = "walk"
    /\ rec.steps < MaxSteps
    /\ \E x \in Successors(mc, rec.curr_node) :
         LET curr_node == Append(Tail(rec.curr_node), x)
             next_item == mc.labels[curr_node[Len(curr_node)]]
         IN IF WalkStops(rec.curr_recs_list, rec.num_recs)
            THEN /\ rec' = [rec EXCEPT !.curr_node = curr_node, !.steps = @ + 1,
                                       !.n_walk = Len(rec.curr_recs_list)]
                 /\ pc' = "fill"
            ELSE /\ rec' = [rec EXCEPT
                              !.curr_node = curr_node, !.steps = @ + 1,
                              !.curr_recs_list =
                                  IF IsNewItem(next_item, @)
                                  THEN Append(@, next_item) ELSE @]
                 /\ pc' = pc
    /\ UNCHANGED <<prog, args, err, trace, data, mc, bld, item_details, ev, out>>

\* the generator is exhausted: no step left, or no transition out of the node
WalkEnd ==
    /\ prog = "recommend" /\ pc = "walk"
    /\ rec.steps = MaxSteps \/ Successors(mc, rec.curr_node) = {}
    /\ rec' = [rec EXCEPT !.n_walk = Len(rec.curr_recs_list)]
    /\ pc' = "fill"
    /\ UNCHANGED <<prog, args, err, trace, data, mc, bld, item_details, ev, out>>

\* `if len(curr_recs_list) < num_recs:` and the shuffle; pop() of a shuffled
\* list takes any of the remaining items
FillStart ==
    /\ prog = "recommend" /\ pc = "fill"
    /\ IF Len(rec.curr_recs_list) < rec.num_recs
       THEN /\ rec' = [rec EXCEPT !.remaining_items = rec.all_items]
            /\ pc' = "fill_loop"
       ELSE /\ rec' = rec
            /\ pc' = "store"
    /\ UNCHANGED <<prog, args, err, trace, data, mc, bld, item_details, ev, out>>

FillPop ==
    /\ prog = "recommend" /\ pc = "fill_loop"
    /\ Len(rec.curr_recs_list) < rec.num_recs
    /\ IF rec.remaining_items = {}
       THEN /\ err' = "IndexError" /\ pc' = "aborted" /\ rec' = rec
       ELSE /\ \E next_item \in rec.remaining_items :
                 rec' = [rec EXCEPT
                           !.remaining_items = @ \ {next_item},
                           !.curr_recs_list =
                               IF IsNewItem(next_item, @)
                               THEN Append(@, next_item) ELSE @]
            /\ pc' = pc /\ err' = err
    /\ UNCHANGED <<prog, args, trace, data, mc, bld, item_details, ev, out>>

FillEnd ==
    /\ prog = "recommend" /\ pc = "fill_loop"
    /\ ~(Len(rec.curr_recs_list) < rec.num_recs)
    /\ pc' = "store"
    /\ UNCHANGED <<prog, args, err, trace, data, mc, bld, item_details, rec, ev, out>>

\* recs[user] = curr_recs_list
StoreRecs ==
    /\ prog = "recommend" /\ pc = "store"
    /\ rec' = [rec EXCEPT !.recs = Append(@, rec.curr_recs_list)]
    /\ pc' = "next_user"
    /\ UNCHANGED <<prog, args, err, trace, data, mc, bld, item_details, ev, out>>

RecommendReturn ==
    /\ prog = "recommend" /\ pc = "next_user"
    /\ rec.user = Len(data)
    /\ pc' = "save"
    /\ UNCHANGED <<prog, args, err, trace, data, mc, bld, item_details, rec, ev, out>>

RecSave ==
    /\ prog = "recommend" /\ pc = "save"
    /\ out' = <<rec.recs>>
    /\ trace' = Append(trace, "write")
    /\ pc' = "done"
    /\ UNCHANGED <<prog, args, err, data, mc, bld, item_details, rec, ev>>

(***************************************************************************)
(* evaluate.py                                                             *)
(***************************************************************************)
EvalItems == {"W", "X", "Y", "Z"}
UserSet == Range(Users)

DistinctLists(n) ==
    {l \in [1..n -> EvalItems] : \A i, j \in 1..n : l[i] = l[j] => i = j}

RECURSIVE TotalLen(_, _)
TotalLen(f, k) ==
    IF k = 0 THEN 0
    ELSE (IF Users[k] \in DOMAIN f THEN Len(f[Users[k]]) ELSE 0) + TotalLen(f, k - 1)

RECURSIVE TotalCard(_, _)
TotalCard(f, k) ==
    IF k = 0 THEN 0
    ELSE (IF Users[k] \in DOMAIN f THEN Cardinality(f[Users[k]]) ELSE 0)
         + TotalCard(f, k - 1)

\* the recommendation files (JSON) with at most MaxEvalRecs items in all
EvalRecsFiles ==
    UNION {{f \in [S -> UNION {DistinctLists(n) : n \in 0..MaxEvalRecs}] :
               TotalLen(f, Len(Users)) <= MaxEvalRecs}
           : S \in SUBSET UserSet}

\* what load_purchases can return for a file of at most MaxEvalPurchases rows
EvalPurchases ==
    UNION {{f \in [S -> (SUBSET EvalItems) \ {{}}] :
               TotalCard(f, Len(Users)) <= MaxEvalPurchases}
           : S \in SUBSET UserSet}

EvalArgs ==
    [inputs_are_files : BOOLEAN, columns_empty : BOOLEAN, output_exists : BOOLEAN]

EvalArgsError(a) ==
    IF ~a.inputs_are_files THEN "FileNotFound"
    ELSE IF a.columns_empty THEN "EmptyColumn"
    ELSE IF a.output_exists THEN "FileExists"
    ELSE "none"

\* recs.items(): the users of recs in the dict's order
RECURSIVE ItemsOrder(_, _)
ItemsOrder(recs, k) ==
    IF k > Len(Users) THEN <<>>
    ELSE (IF Users[k] \in DOMAIN recs THEN <<Users[k]>> ELSE <<>>)
         \o ItemsOrder(recs, k + 1)

NumRecsPurchased(user_recs, user_purchases) ==
    Cardinality({i \in 1..Len(user_recs) : user_recs[i] \in user_purchases})

\* the optimum taken to be the length of the list
OptimalIsListLength(user_recs, user_purchases) == Len(user_recs)

OptimalNumRecsPurchased(user_recs, user_purchases) ==
    Min(Cardinality(user_purchases), Len(user_recs))

NoEvalLocals == [recs |-> <<>>, purchases |-> <<>>, todo |-> <<>>, evals |-> <<>>]

EvalParseArgs ==
    /\ prog = "evaluate" /\ pc = "parse_args"
    /\ err' = EvalArgsError(args)
    /\ pc' = IF err' = "none" THEN "load_recs" ELSE "aborted"
    /\ UNCHANGED <<prog, args, trace, data, mc, bld, item_details, rec, ev, out>>

EvalLoadRecs ==
    /\ prog = "evaluate" /\ pc = "load_recs"
    /\ \E f \in EvalRecsFiles : ev' = [ev EXCEPT !.recs = f]
    /\ trace' = Append(trace, "read")
    /\ pc' = "load_purchases"
    /\ UNCHANGED <<prog, args, err, data, mc, bld, item_details, rec, out>>

EvalLoadPurchases ==
    /\ prog = "evaluate" /\ pc = "load_purchases"
    /\ \E f \in EvalPurchases : ev' = [ev EXCEPT !.purchases = f]
    /\ trace' = Append(trace, "read")
    /\ pc' = "evaluate"
    /\ UNCHANGED <<prog, args, err, data, mc, bld, item_details, rec, out>>

EvaluateStart ==
    /\ prog = "evaluate" /\ pc = "evaluate"
    /\ ev' = [ev EXCEPT !.evals = <<>>, !.todo = ItemsOrder(ev.recs, 1)]
    /\ trace' = Append(trace, "core")
    /\ pc' = "eval_loop"
    /\ UNCHANGED <<prog, args, err, data, mc, bld, item_details, rec, out>>

EvaluateUser ==
    /\ prog = "evaluate" /\ pc = "eval_loop"
    /\ ev.todo # <<>>
    /\ LET user == Head(ev.todo)
           user_recs == ev.recs[user]
       IN IF user \notin DOMAIN ev.purchases
          THEN ev' = [ev EXCEPT !.todo = Tail(@)]
          ELSE ev' = [ev EXCEPT
                        !.todo = Tail(@),
                        !.evals = @ @@ (user :>
                            <<NumRecsPurchased(user_recs, ev.purchases[user]),
                              OptimalNumRecsPurchased(user_recs, ev.purchases[user])>>)]
    /\ UNCHANGED <<prog, args, pc, err, trace, data, mc, bld, item_details, rec, out>>

EvaluateReturn ==
    /\ prog = "evaluate" /\ pc = "eval_loop"
    /\ ev.todo = <<>>
    /\ pc' = "save"
    /\ UNCHANGED <<prog, args, err, trace, data, mc, bld, item_details, rec, ev, out>>

EvalSave ==
    /\ prog = "evaluate" /\ pc = "save"
    /\ out' = <<ev.evals>>
    /\ trace' = Append(trace, "write")
    /\ pc' = "done"
    /\ UNCHANGED <<prog, args, err, data, mc, bld, item_details, rec, ev>>

(***************************************************************************)
(* The three programs                                                      *)
(***************************************************************************)
Init ==
    /\ \/ prog = "build" /\ args \in BuildArgs
       \/ prog = "recommend" /\ args \in RecArgs
       \/ prog = "evaluate" /\ args \in EvalArgs
    /\ pc = "parse_args"
    /\ err = "none"
    /\ trace = <<>>
    /\ data = <<>>
    /\ mc = NewChain(0)
    /\ bld = NoLocals
    /\ item_details = {}
    /\ rec = NoRecLocals
    /\ ev = NoEvalLocals
    /\ out = <<>>

Next ==
    \/ BuildParseArgs
    \/ BuildLoadInteractions
    \/ BuildNew
    \/ SegmentUser
    \/ IngestPath
    \/ PathsDone
    \/ BuildReturn
    \/ BuildDump
    \/ RecParseArgs
    \/ RecLoadChain
    \/ RecAddPseudocount
    \/ RecLoadInteractions
    \/ RecLoadItemDetails
    \/ RecommendStart
    \/ FindFinalNode
    \/ WalkStart
    \/ WalkStep
    \/ WalkEnd
    \/ FillStart
    \/ FillPop
    \/ FillEnd
    \/ StoreRecs
    \/ RecommendReturn
    \/ RecSave
    \/ EvalParseArgs
    \/ EvalLoadRecs
    \/ EvalLoadPurchases
    \/ EvaluateStart
    \/ EvaluateUser
    \/ EvaluateReturn
    \/ EvalSave

Spec == Init /\ [][Next]_vars

(***************************************************************************)
(* Properties                                                              *)
(***************************************************************************)
RECURSIVE Flatten(_)
Flatten(ss) == IF ss = <<>> THEN <<>> ELSE Head(ss) \o Flatten(Tail(ss))

ItemsOf(h) == [i \in 1..Len(h) |-> h[i][2]]

\* the paths that split_inds s cuts history h into
PathsOf(h, s) == [k \in 1..(Len(s) - 1) |-> PathItems(h, s[k], s[k + 1])]

\* the count of the transition from the window of labels w to the item x
CountOfLabels(chain, w, x) ==
    Count(chain.transitions, NodeOf(chain.labels, w), LabelToState(chain.labels, x))

\* C2: the paths of a sorted history are contiguous, disjoint, ordered and cover
\* it; a path starts at i exactly when time[i] - time[i-1] > threshold; an
\* infinite threshold gives one path, threshold 0 one path per run of equal times
SegmenterPartitions ==
    (prog = "build" /\ pc = "paths") =>
        LET h == data[bld.user]
            s == bld.split_inds
            t == args.threshold
            zero == SplitInds(h, 0)
        IN /\ s[1] = 0 /\ s[Len(s)] = Len(h)
           /\ \A k \in 1..(Len(s) - 1) : s[k] < s[k + 1]
           /\ Flatten(PathsOf(h, s)) = ItemsOf(h)
           /\ \A i \in 1..(Len(h) - 1) :
                 (i \in Range(s)) <=> (t # Infinity /\ h[i + 1][1] - h[i][1] > t)
           /\ SplitInds(h, Infinity) = <<0, Len(h)>>
           /\ zero[1] = 0 /\ zero[Len(zero)] = Len(h)
           /\ \A k \in 1..(Len(zero) - 1) : zero[k] < zero[k + 1]
           /\ \A i \in 1..(Len(h) - 1) :
                 (i \in Range(zero)) <=> (h[i + 1][1] # h[i][1])

\* a history cut into at least two paths, one of them holding a gap within the threshold
SegmenterSplitsAndJoins ==
    /\ prog = "build" /\ pc = "paths"
    /\ Len(bld.split_inds) >= 3
    /\ \E k \in 1..(Len(bld.split_inds) - 1) :
          /\ bld.split_inds[k + 1] - bld.split_inds[k] >= 2
          /\ data[bld.user][bld.split_inds[k] + 2][1]
                > data[bld.user][bld.split_inds[k] + 1][1]

Occurrences(w, x) ==
    {ui \in (1..Len(data)) \X (1..MaxRows) :
        LET h == data[ui[1]]
            i == ui[2]
            order == args.markov_order
        IN /\ i + order <= Len(h)
           /\ \A j \in 1..order : h[i + j - 1][2] = w[j]
           /\ h[i + order][2] = x
           /\ \A j \in i..(i + order - 1) :
                 ~(args.threshold # Infinity /\ h[j + 1][1] - h[j][1] > args.threshold)}

SpecExample == <<<<<<0, "A">>, <<10, "B">>, <<50, "C">>>>>>

CandidateWindow(h, order) ==
    LET n == Min(order, Len(h)) IN
    [i \in 1..order |-> IF i <= order - n THEN "<pad>" ELSE h[Len(h) - order + i][2]]

StateLabels(chain, v) == [i \in 1..Len(v) |-> chain.labels[v[i]]]

Hamming(chain, window, v) ==
    Cardinality({i \in 1..chain.order : window[i] # StateLabels(chain, v)[i]})

WindowIsKnown(chain, window) ==
    \E v \in DOMAIN chain.transitions : StateLabels(chain, v) = window

\* C1: a user whose final window is unknown to a chain with at least one known
\* state gets a known state as the start of the walk, and no error is raised
UnknownWindowStartsAtKnownState ==
    (/\ prog = "recommend" /\ pc = "random_walk"
     /\ DOMAIN mc.transitions # {}
     /\ ~WindowIsKnown(mc, CandidateWindow(data[rec.user], mc.order))) =>
        /\ rec.final_node \in DOMAIN mc.transitions
        /\ err = "none"

\* C5: the start of the walk is a known state at minimal Hamming distance from
\* the candidate window (the window itself when it is known)
StartIsNearestState ==
    (prog = "recommend" /\ pc = "random_walk" /\ DOMAIN mc.transitions # {}) =>
        LET window == CandidateWindow(data[rec.user], mc.order) IN
        /\ rec.final_node \in DOMAIN mc.transitions
        /\ \A w \in DOMAIN mc.transitions :
              Hamming(mc, window, rec.final_node) <= Hamming(mc, window, w)

NoDuplicates(l) == \A i, j \in 1..Len(l) : l[i] = l[j] => i = j

\* C6: during the walk and the fill the list has no duplicate and at most
\* num_recs items; the walk takes at most num_steps steps and adds at most one
\* item per step
RecsDistinctAndBounded ==
    (prog = "recommend" /\ pc \in {"walk", "fill", "fill_loop", "store", "next_user", "save", "done"}) =>
        /\ NoDuplicates(rec.curr_recs_list)
        /\ Len(rec.curr_recs_list) <= rec.num_recs
        /\ rec.num_recs <= args.num_recs
        /\ rec.steps <= MaxSteps
        /\ pc = "walk" => Len(rec.curr_recs_list) <= rec.steps
        /\ rec.n_walk <= rec.steps
        /\ \A k \in 1..Len(rec.recs) :
              NoDuplicates(rec.recs[k]) /\ Len(rec.recs[k]) <= rec.num_recs

\* the walk met an item twice, stopped short, and the fill completed the list
WalkRepeatedThenFilled ==
    /\ prog = "recommend" /\ pc = "store"
    /\ rec.n_walk >= 1
    /\ rec.steps > rec.n_walk
    /\ Len(rec.curr_recs_list) > rec.n_walk

\* C7: whatever the walk returned, the fill ends without error with exactly
\* min(n, vocabulary size) items, the added ones drawn without replacement from
\* the vocabulary minus the items already chosen
FillReachesCappedCount ==
    prog = "recommend" =>
        /\ err # "IndexError"
        /\ (pc = "fill_loop" /\ Len(rec.curr_recs_list) < rec.num_recs) =>
              rec.remaining_items # {}
        /\ pc = "store" =>
              LET l == rec.curr_recs_list
                  n == IF args.num_recs <= Cardinality(item_details)
                       THEN args.num_recs ELSE Cardinality(item_details)
              IN /\ Len(l) = n
                 /\ rec.n_walk <= Len(l)
                 /\ \A k \in (rec.n_walk + 1)..Len(l) :
                       /\ l[k] \in item_details
                       /\ \A j \in 1..(k - 1) : l[j] # l[k]
        /\ \A k \in 1..Len(rec.recs) :
              Len(rec.recs[k]) = IF args.num_recs <= Cardinality(item_details)
                                 THEN args.num_recs ELSE Cardinality(item_details)

\* the walk recommended an item that is not in the vocabulary and the fill added to it
FilledAfterForeignItem ==
    /\ prog = "recommend" /\ pc = "store"
    /\ rec.n_walk >= 1
    /\ rec.curr_recs_list[1] \notin item_details
    /\ Len(rec.curr_recs_list) > rec.n_walk

NonPositiveConfigRejected ==
    (/\ pc # "parse_args"
     /\ \/ prog = "build" /\ (args.markov_order <= 0 \/ args.threshold <= 0)
        \/ prog = "recommend" /\ args.num_recs <= 0) =>
        /\ pc = "aborted"
        /\ err \in {"FileNotFound", "EmptyColumn", "FileExists",
                    "BadThreshold", "BadOrder", "BadNumRecs"}
        /\ trace = <<>>

WritesComeLast ==
    /\ \A j \in 1..Len(trace) :
          trace[j] = "write" =>
              /\ j = Len(trace) /\ pc = "done"
              /\ \E i \in 1..(j - 1) : trace[i] = "core"
    /\ out # <<>> => (pc = "done" /\ trace[Len(trace)] = "write")
    /\ err # "none" => (out = <<>> /\ pc = "aborted")
    /\ pc = "aborted" => err # "none"

\* C10 as stated: no file is read once a core computation (pseudocount
\* smoothing included) has started, every write follows the computation, and
\* an aborted run has written nothing
ReadsBeforeAnyComputation ==
    /\ \A i, j \in 1..Len(trace) :
          (i < j /\ trace[i] \in {"smooth", "core"}) => trace[j] # "read"
    /\ WritesComeLast

\* C10 as amended: no file is read once segmentation/ingestion, recommendation
\* or evaluation has started; recommend.py smooths the chain right after
\* loading it, before it reads the interactions and the item details; every
\* write follows the computation, and an aborted run has written nothing
ReadsBeforeMainComputation ==
    /\ \A i, j \in 1..Len(trace) :
          (i < j /\ trace[i] = "core") => trace[j] \notin {"read", "smooth"}
    /\ \A j \in 1..Len(trace) :
          trace[j] = "smooth" =>
              /\ prog = "recommend" /\ ~args.no_pseudocount
              /\ j = 2 /\ trace[1] = "read"
    /\ (prog = "recommend" /\ ~args.no_pseudocount /\ Len(trace) >= 2) =>
          trace[2] = "smooth"
    /\ WritesComeLast

\* a recommend run that smoothed the chain, read its inputs after that, and wrote its output
SmoothedRunFinished ==
    /\ prog = "recommend" /\ pc = "done"
    /\ trace = <<"read", "smooth", "read", "read", "core", "write">>
    /\ out # <<>>

====
